---- MODULE Spec2Model ----
(***************************************************************************)
(* AIAR Guitar: the gesture-to-audio decision pipeline.                    *)
(*                                                                         *)
(*   AudioEngine (systems/AudioEngine)   voices, playNote, releaseNote,    *)
(*                                       playChord, stopAll, dispose,      *)
(*                                       processStrumMovement              *)
(*   useStore (stores/useStore)          the zustand store slices read and *)
(*                                       written by the engine and hook    *)
(*   useWebSocket (hooks/useWebSocket)   the recognition channel           *)
(*                                                                         *)
(* Time is in milliseconds.  `now` is the one wall clock behind Tone.now() *)
(* and the setTimeout timers; a timer fires when the clock reaches its due *)
(* time and the clock never passes a pending timer.  The gain written to   *)
(* voice.gain is an audio parameter that no decision reads back; it is not *)
(* part of the state.  Positions are on a grid of 1/PosScale units.        *)
(***************************************************************************)
EXTENDS Integers, Sequences, FiniteSets, TLC

\* a JavaScript reference that may be null or undefined: None, or Some(v)
None == << >>

Some(v) == <<v>>

\* wsRef.current === null (socket identities start at 1)
NoSocket == 0

(***************************************************************************)
(* Program constants                                                       *)
(***************************************************************************)
\* GUITAR_TUNING with a seventh (low B) string added
GUITAR_TUNING_SevenStrings == <<35, 40, 45, 50, 55, 59, 64>>

\* config/constants.ts GUITAR_TUNING: the open-string MIDI pitch, low to high
GUITAR_TUNING == <<40, 45, 50, 55, 59, 64>>

STRUM_DEBOUNCE_MS == 50

\* STRUM_SPEED_THRESHOLD = 0.15 and STRUM_SPEED_MAX = 0.8, in thousandths
STRUM_SPEED_THRESHOLD_MILLI == 150

STRUM_SPEED_MAX_MILLI == 800

\* the setTimeout delay of the auto-release in playNote
SUSTAIN_MS == 1500

\* the per-string setTimeout delay in playChord
CHORD_STAGGER_MS == 20

\* AUDIO_CONFIG.maxPolyphony
MaxPolyphony == 6

RECONNECT_DELAY == 3000

MAX_RECONNECT_ATTEMPTS == 5

\* EMA_ALPHA = 0.3, in percent
EMA_ALPHA_PCT == 30

LANDMARKS_PER_HAND == 21

DIMS_PER_LANDMARK == 3

\* AI_CONFIG.confidenceThreshold = 0.85, in hundredths
ConfidenceThresholdPct == 85

\* WS_CONFIG.reconnectBaseDelay and reconnectMaxDelay, ms
ReconnectBaseDelay == 1000

ReconnectMaxDelay == 8000

\* WS_CONFIG.inferenceThrottleMs: one inference cycle, ms
InferenceThrottleMs == 200

\* CHORD_DATABASE entries used as recognizer answers
CHORD_DATABASE ==
    [ C_Major |-> [fingering |-> <<0, 3, 2, 0, 1, 0>>,
                   notes     |-> <<48, 52, 55, 60, 64, 67>>],
      D_Major |-> [fingering |-> <<-1, -1, 0, 2, 3, 2>>,
                   notes     |-> <<50, 54, 57, 62, 66, 69>>],
      E_Major |-> [fingering |-> <<0, 2, 2, 1, 0, 0>>,
                   notes     |-> <<40, 47, 52, 56, 59, 64>>] ]

(***************************************************************************)
(* Bounds of the model                                                     *)
(***************************************************************************)
\* the clock advances in steps of TickMs while external calls are made
TickMs == 50

\* external calls (user / frame loop) are made while now <= MaxCallTime
MaxCallTime == 100

\* no timer due after MaxTime fires
MaxTime == 5000

\* positions are multiples of 1/PosScale
PosScale == 12

\* frames are modelled up to this time, ms
MaxFrameTime == 300

\* at most this many requests are sent in a run
MaxRequests == 3

\* reconnection with opens in between is followed up to this time, ms
MaxReopenTime == 30000

\* initialize() calls that may be suspended at the same time
MaxOverlap == 2


(***************************************************************************)
(* lib/math helpers                                                        *)
(***************************************************************************)
Max(a, b) == IF a >= b THEN a ELSE b

Min(a, b) == IF a <= b THEN a ELSE b

clamp(v, lo, hi) == Max(lo, Min(hi, v))

\* floor of the square root
RECURSIVE SqrtFrom(_, _)
SqrtFrom(n, r) == IF (r + 1) * (r + 1) > n THEN r ELSE SqrtFrom(n, r + 1)

ISqrt(n) == SqrtFrom(n, 0)

subtract(a, b) == [x |-> a.x - b.x, y |-> a.y - b.y, z |-> a.z - b.z]

\* Euclidean length in grid units (exact when the sum is a perfect square)
magnitude(v) == ISqrt(v.x * v.x + v.y * v.y + v.z * v.z)

\* a negative fret is the mute sentinel: no MIDI note
getFrettedMidi(openStringMidi, fret) ==
    IF fret < 0 THEN -1 ELSE openStringMidi + fret

VARIABLES
    now,              \* the clock, ms
    hasState,         \* AudioEngine.state !== null (isInitialized with it)
    voices,           \* state.voices: string index -> [isPlaying, lastNoteTime, envelope]
    timers,           \* pending setTimeout callbacks
    strumState,       \* state.strumState
    lastStrumTime,    \* AudioEngine.lastStrumTime
    store,            \* the useStore slices
    sockets,          \* WebSocket objects: id -> readyState
    wsRef,            \* wsRef.current: a socket id or NoSocket
    reconnectAttempts,
    reconnectTimeout, \* reconnectTimeout.current: the timer it holds, if any
    wsTimers,         \* pending setTimeout(connect, RECONNECT_DELAY) callbacks
    mounted,          \* the useWebSocket hook is mounted
    outbox,           \* requests written with ws.send: the socket and the time of each
    prevLandmarksRef, \* HandTracker's prevLandmarksRef.current: the cache of each hand slot
    lastResults,      \* the hands MediaPipe reported in the latest frame, and how onResults ended
    awaitingStart,    \* initialize() calls suspended at `await Tone.start()`
    lastCall          \* the handler that ran last and the path it took

vars == <<now, hasState, voices, timers, strumState, lastStrumTime, store,
          sockets, wsRef, reconnectAttempts, reconnectTimeout, wsTimers, mounted,
          outbox, prevLandmarksRef, lastResults, awaitingStart, lastCall>>

engineVars == <<hasState, voices, timers, strumState, lastStrumTime>>

wsVars == <<sockets, wsRef, reconnectAttempts, reconnectTimeout, wsTimers, mounted, outbox>>

trackerVars == <<prevLandmarksRef, lastResults>>

(***************************************************************************)
(* Initial state                                                           *)
(***************************************************************************)
\* defaultAudioState with correction switched on before any result arrives
defaultAudioState_CorrectionOn ==
    [ isInitialized    |-> FALSE,
      isMuted          |-> FALSE,
      activeStrings    |-> {},
      lastStrumEvent   |-> None,
      correctionActive |-> TRUE,
      currentChord     |-> "unknown",
      overrideNotes    |-> << >> ]

defaultVisionState == [ leftHand |-> None, rightHand |-> None, isTracking |-> FALSE ]

defaultAudioState ==
    [ isInitialized    |-> FALSE,
      isMuted          |-> FALSE,
      activeStrings    |-> {},
      lastStrumEvent   |-> None,
      correctionActive |-> FALSE,
      currentChord     |-> "unknown",
      overrideNotes    |-> << >> ]

defaultWebSocketState ==
    [ wsConnected         |-> FALSE,
      lastInferenceResult |-> None ]

defaultUIState == [ error |-> "" ]

StoreInit ==
    [ leftHand            |-> defaultVisionState.leftHand,
      rightHand           |-> defaultVisionState.rightHand,
      isTracking          |-> defaultVisionState.isTracking,
      isInitialized       |-> defaultAudioState.isInitialized,
      isMuted             |-> defaultAudioState.isMuted,
      activeStrings       |-> defaultAudioState.activeStrings,
      lastStrumEvent      |-> defaultAudioState.lastStrumEvent,
      correctionActive    |-> defaultAudioState.correctionActive,
      currentChord        |-> defaultAudioState.currentChord,
      overrideNotes       |-> defaultAudioState.overrideNotes,
      wsConnected         |-> defaultWebSocketState.wsConnected,
      lastInferenceResult |-> defaultWebSocketState.lastInferenceResult,
      error               |-> defaultUIState.error ]

StrumStateInit ==
    [ lastPosition |-> None, lastTimestamp |-> 0, velocity |-> 0 ]

\* lastCall: the handler, its string (or socket) and fret arguments (-1 when it
\* has none), the return path it took, and the path of the playNote it made
Call(op, string, fret, outcome, note) ==
    [op |-> op, string |-> string, fret |-> fret, outcome |-> outcome, note |-> note]

Init ==
    /\ now = 0
    /\ hasState = FALSE
    /\ voices = << >>
    /\ timers = {}
    /\ strumState = StrumStateInit
    /\ lastStrumTime = 0
    /\ store = StoreInit
    /\ sockets = << >>
    /\ wsRef = NoSocket
    /\ reconnectAttempts = 0
    /\ reconnectTimeout = None
    /\ wsTimers = {}
    /\ mounted = FALSE
    /\ outbox = << >>
    /\ prevLandmarksRef = [left |-> None, right |-> None]
    /\ lastResults = [hands |-> << >>, outcome |-> "none"]
    /\ awaitingStart = 0
    /\ lastCall = Call("new", -1, -1, "-", "-")

(***************************************************************************)
(* AudioEngine                                                             *)
(***************************************************************************)
NumVoices == Len(GUITAR_TUNING)

StringIndices == 0 .. (NumVoices - 1)

PlayingStrings == {s \in DOMAIN voices : voices[s].isPlaying}

\* voice.envelope: the last two commands given to it (triggerAttack, triggerRelease)
Triggered(envelope, command) == <<envelope[2], command>>

\* envelope.triggerRelease(Tone.now()); voice.isPlaying = false
Released(voice) ==
    [voice EXCEPT !.isPlaying = FALSE, !.envelope = Triggered(@, "release")]

ReleaseTimer(stringIndex) ==
    [kind |-> "release", string |-> stringIndex, fret |-> 0,
     due |-> now + SUSTAIN_MS]

\* PlayTimer without the stagger between the strings
PlayTimer_NoStagger(stringIndex, fret) ==
    [kind |-> "play", string |-> stringIndex, fret |-> fret, due |-> now]

PlayTimer(stringIndex, fret) ==
    [kind |-> "play", string |-> stringIndex, fret |-> fret,
     due |-> now + stringIndex * CHORD_STAGGER_MS]

\* initialize(): Tone.start(), one voice per GUITAR_TUNING entry, fresh strum state
Initialize ==
    /\ IF hasState
       THEN UNCHANGED <<hasState, voices, strumState, store>>
       ELSE /\ hasState' = TRUE
            /\ voices' = [s \in StringIndices |->
                             [isPlaying |-> FALSE, lastNoteTime |-> 0,
                              envelope |-> <<"none", "none">>]]
            /\ strumState' = StrumStateInit
            /\ store' = [store EXCEPT !.isInitialized = TRUE]
    /\ lastCall' = Call("initialize", -1, -1, IF hasState THEN "already" ELSE "created", "-")
    /\ UNCHANGED <<now, timers, lastStrumTime, wsVars, trackerVars, awaitingStart>>

\* initialize() up to `await Tone.start()`: it returns true when the engine
\* has its state, otherwise the call is suspended
InitializeBegin ==
    /\ IF hasState
       THEN UNCHANGED awaitingStart
       ELSE /\ awaitingStart < MaxOverlap
            /\ awaitingStart' = awaitingStart + 1
    /\ lastCall' = Call("initialize", -1, -1, IF hasState THEN "already" ELSE "awaiting", "-")
    /\ UNCHANGED <<now, engineVars, store, wsVars, trackerVars>>

\* initialize() from the line after `await Tone.start()`: the voices are
\* created and this.state is assigned, whatever this.state holds by now
InitializeResume ==
    /\ awaitingStart > 0
    /\ awaitingStart' = awaitingStart - 1
    /\ hasState' = TRUE
    /\ voices' = [s \in StringIndices |->
                     [isPlaying |-> FALSE, lastNoteTime |-> 0,
                      envelope |-> <<"none", "none">>]]
    /\ strumState' = StrumStateInit
    /\ store' = [store EXCEPT !.isInitialized = TRUE]
    /\ lastCall' = Call("initialize", -1, -1, "created", "-")
    /\ UNCHANGED <<now, timers, lastStrumTime, wsVars, trackerVars>>

\* PlayNoteOutcome without the per-voice debounce
PlayNoteOutcome_NoDebounce(stringIndex, fret) ==
    IF ~hasState THEN "uninitialized"
    ELSE IF stringIndex < 0 \/ stringIndex >= Len(GUITAR_TUNING) THEN "badIndex"
    ELSE IF getFrettedMidi(GUITAR_TUNING[stringIndex + 1], fret) < 0 THEN "mutedString"
    ELSE IF store.isMuted THEN "globalMute"
    ELSE "attack"

\* PlayNoteOutcome without the global mute check
PlayNoteOutcome_IgnoresMute(stringIndex, fret) ==
    IF ~hasState THEN "uninitialized"
    ELSE IF stringIndex < 0 \/ stringIndex >= Len(GUITAR_TUNING) THEN "badIndex"
    ELSE IF now - voices[stringIndex].lastNoteTime < STRUM_DEBOUNCE_MS THEN "debounced"
    ELSE IF getFrettedMidi(GUITAR_TUNING[stringIndex + 1], fret) < 0 THEN "mutedString"
    ELSE "attack"

\* the return path playNote takes
PlayNoteOutcome(stringIndex, fret) ==
    IF ~hasState THEN "uninitialized"
    ELSE IF stringIndex < 0 \/ stringIndex >= NumVoices THEN "badIndex"
    ELSE IF now - voices[stringIndex].lastNoteTime < STRUM_DEBOUNCE_MS THEN "debounced"
    ELSE IF getFrettedMidi(GUITAR_TUNING[stringIndex + 1], fret) < 0 THEN "mutedString"
    ELSE IF store.isMuted THEN "globalMute"
    ELSE "attack"

\* PlayNote that schedules no auto-release
PlayNote_NoAutoRelease(stringIndex, fret, pending, st) ==
    IF PlayNoteOutcome(stringIndex, fret) = "attack"
    THEN /\ voices' = [voices EXCEPT ![stringIndex] =
                          [isPlaying |-> TRUE, lastNoteTime |-> now,
                           envelope |-> Triggered(@.envelope, "attack")]]
         /\ timers' = pending
         /\ store' = [st EXCEPT !.activeStrings = @ \cup {stringIndex}]
    ELSE /\ voices' = voices
         /\ timers' = pending
         /\ store' = st

\* playNote(stringIndex, fret, velocity) run with `pending` as the timers left
\* by its caller, and `st` as the store its caller leaves
PlayNote(stringIndex, fret, pending, st) ==
    IF PlayNoteOutcome(stringIndex, fret) = "attack"
    THEN /\ voices' = [voices EXCEPT ![stringIndex] =
                          [isPlaying |-> TRUE, lastNoteTime |-> now,
                           envelope |-> Triggered(@.envelope, "attack")]]
         /\ timers' = pending \cup {ReleaseTimer(stringIndex)}
         /\ store' = [st EXCEPT !.activeStrings = @ \cup {stringIndex}]
    ELSE /\ voices' = voices
         /\ timers' = pending
         /\ store' = st

\* the return path releaseNote takes
ReleaseNoteOutcome(stringIndex) ==
    IF ~hasState THEN "uninitialized"
    ELSE IF stringIndex \notin DOMAIN voices THEN "noVoice"
    ELSE IF ~voices[stringIndex].isPlaying THEN "idle"
    ELSE "released"

\* ReleaseNote that leaves the string in the active-string set
ReleaseNote_KeepsActiveString(stringIndex) ==
    IF ReleaseNoteOutcome(stringIndex) = "released"
    THEN /\ voices' = [voices EXCEPT ![stringIndex] = Released(@)]
         /\ store' = store
    ELSE UNCHANGED <<voices, store>>

\* releaseNote(stringIndex)
ReleaseNote(stringIndex) ==
    IF ReleaseNoteOutcome(stringIndex) = "released"
    THEN /\ voices' = [voices EXCEPT ![stringIndex] = Released(@)]
         /\ store' = [store EXCEPT !.activeStrings = @ \ {stringIndex}]
    ELSE UNCHANGED <<voices, store>>

PlayNoteCall(stringIndex, fret) ==
    /\ now <= MaxCallTime
    /\ PlayNote(stringIndex, fret, timers, store)
    /\ lastCall' = Call("playNote", stringIndex, fret, PlayNoteOutcome(stringIndex, fret), "-")
    /\ UNCHANGED <<now, hasState, strumState, lastStrumTime, wsVars, trackerVars, awaitingStart>>

ReleaseNoteCall(stringIndex) ==
    /\ now <= MaxCallTime
    /\ ReleaseNote(stringIndex)
    /\ lastCall' = Call("releaseNote", stringIndex, -1, ReleaseNoteOutcome(stringIndex), "-")
    /\ UNCHANGED <<now, hasState, timers, strumState, lastStrumTime, wsVars, trackerVars, awaitingStart>>

\* playChord(fingering, velocity): one staggered timer per string with fret >= 0
\* (called while no earlier chord is still being strummed)
PlayChordCall(fingering) ==
    /\ now <= MaxCallTime
    /\ \A t \in timers : t.kind # "play"
    /\ timers' = IF hasState
                 THEN timers \cup {PlayTimer(i - 1, fingering[i]) :
                                     i \in {j \in 1 .. Len(fingering) : fingering[j] >= 0}}
                 ELSE timers
    /\ lastCall' = Call("playChord", -1, -1, IF hasState THEN "scheduled" ELSE "uninitialized", "-")
    /\ UNCHANGED <<now, hasState, voices, strumState, lastStrumTime, store, wsVars, trackerVars, awaitingStart>>

\* the voices and store stopAll() leaves: every playing voice released, then
\* clearActiveStrings()
StopAllVoices ==
    [s \in DOMAIN voices |-> IF voices[s].isPlaying THEN Released(voices[s]) ELSE voices[s]]

StopAllCall ==
    /\ now <= MaxCallTime
    /\ IF hasState
       THEN /\ voices' = StopAllVoices
            /\ store' = [store EXCEPT !.activeStrings = {}]
       ELSE UNCHANGED <<voices, store>>
    /\ lastCall' = Call("stopAll", -1, -1, IF hasState THEN "stopped" ELSE "uninitialized", "-")
    /\ UNCHANGED <<now, hasState, timers, strumState, lastStrumTime, wsVars, trackerVars, awaitingStart>>

\* Dispose without the stopAll() call
Dispose_SkipsStopAll ==
    /\ now <= MaxCallTime
    /\ IF hasState
       THEN /\ hasState' = FALSE
            /\ voices' = << >>
            /\ strumState' = StrumStateInit
            /\ store' = store
       ELSE UNCHANGED <<hasState, voices, strumState, store>>
    /\ lastCall' = Call("dispose", -1, -1, IF hasState THEN "disposed" ELSE "uninitialized", "-")
    /\ UNCHANGED <<now, timers, lastStrumTime, wsVars, trackerVars, awaitingStart>>

\* dispose(): stopAll(), dispose the voices, state = null
Dispose ==
    /\ now <= MaxCallTime
    /\ IF hasState
       THEN /\ hasState' = FALSE
            /\ voices' = << >>
            /\ strumState' = StrumStateInit
            /\ store' = [store EXCEPT !.activeStrings = {}]
       ELSE UNCHANGED <<hasState, voices, strumState, store>>
    /\ lastCall' = Call("dispose", -1, -1, IF hasState THEN "disposed" ELSE "uninitialized", "-")
    /\ UNCHANGED <<now, timers, lastStrumTime, wsVars, trackerVars, awaitingStart>>

\* HUD: the M key toggles the global mute
SetMuted(muted) ==
    /\ now <= MaxCallTime
    /\ store' = [store EXCEPT !.isMuted = muted]
    /\ lastCall' = Call("setMuted", -1, -1, "-", "-")
    /\ UNCHANGED <<now, engineVars, wsVars, trackerVars, awaitingStart>>

(***************************************************************************)
(* The clock and the timers                                                *)
(***************************************************************************)
DueTimes == {t.due : t \in timers} \cup {t[1] : t \in wsTimers}

NextDue == CHOOSE d \in DueTimes : \A e \in DueTimes : d <= e

NoTimerBefore(t) == \A d \in DueTimes : t <= d

Tick ==
    /\ now + TickMs <= MaxCallTime
    /\ NoTimerBefore(now + TickMs)
    /\ now' = now + TickMs
    /\ lastCall' = Call("tick", -1, -1, "-", "-")
    /\ UNCHANGED <<engineVars, store, wsVars, trackerVars, awaitingStart>>

\* nothing else happens until the next timer is due
Sleep ==
    /\ DueTimes # {}
    /\ NextDue > now
    /\ NextDue <= MaxTime
    /\ now' = NextDue
    /\ lastCall' = Call("sleep", -1, -1, "-", "-")
    /\ UNCHANGED <<engineVars, store, wsVars, trackerVars, awaitingStart>>

\* the auto-release callback of playNote
AutoRelease(t) ==
    /\ t \in timers
    /\ t.kind = "release"
    /\ t.due <= now
    /\ timers' = timers \ {t}
    /\ ReleaseNote(t.string)
    /\ lastCall' = Call("autoRelease", t.string, -1, ReleaseNoteOutcome(t.string), "-")
    /\ UNCHANGED <<now, hasState, strumState, lastStrumTime, wsVars, trackerVars, awaitingStart>>

\* the staggered callback of playChord
ChordNote(t) ==
    /\ t \in timers
    /\ t.kind = "play"
    /\ t.due <= now
    /\ PlayNote(t.string, t.fret, timers \ {t}, store)
    /\ lastCall' = Call("chordNote", t.string, t.fret, PlayNoteOutcome(t.string, t.fret), "-")
    /\ UNCHANGED <<now, hasState, strumState, lastStrumTime, wsVars, trackerVars, awaitingStart>>

(***************************************************************************)
(* processStrumMovement                                                    *)
(***************************************************************************)
Point(x, y, z) == [x |-> x, y |-> y, z |-> z]

\* speed in thousandths of a unit per second, rounded down:
\* (magnitude / PosScale) / (dt / 1000) * 1000
SpeedMilli(mag, dtMs) == (mag * 1000000) \div (PosScale * dtMs)

\* speed > STRUM_SPEED_THRESHOLD, compared exactly
AboveThreshold(mag, dtMs) ==
    mag * 1000000 > STRUM_SPEED_THRESHOLD_MILLI * PosScale * dtMs

\* clamp(speed / STRUM_SPEED_MAX, 0, 1) in thousandths, rounded down
NormalizedVelocity(mag, dtMs) ==
    clamp((mag * (1000000000 \div STRUM_SPEED_MAX_MILLI)) \div (PosScale * dtMs), 0, 1000)

\* the band of the vertical position, not clamped to the six strings
StrumString_NoClamp(pos) == ((PosScale - pos.y) * 6) \div PosScale

\* clamp(Math.floor((1 - y) * 6), 0, 5)
StrumString(pos) == clamp(((PosScale - pos.y) * 6) \div PosScale, 0, 5)

\* ResolveFret without the clamp of a negative offset
ResolveFret_NoClamp(clampedString) ==
    IF store.correctionActive /\ Len(store.overrideNotes) > clampedString
    THEN store.overrideNotes[clampedString + 1] - GUITAR_TUNING[clampedString + 1]
    ELSE 0

\* the fret the strum resolves on clampedString, from the store
ResolveFret(clampedString) ==
    IF store.correctionActive /\ Len(store.overrideNotes) > clampedString
    THEN Max(0, store.overrideNotes[clampedString + 1] - GUITAR_TUNING[clampedString + 1])
    ELSE 0

\* StrumOutcome without the strum debounce
StrumOutcome_NoDebounce(pos, timestamp) ==
    IF ~hasState THEN "noState"
    ELSE IF strumState.lastPosition = None THEN "seed"
    ELSE IF timestamp - strumState.lastTimestamp <= 0 THEN "badDt"
    ELSE IF ~AboveThreshold(magnitude(subtract(pos, strumState.lastPosition[1])),
                            timestamp - strumState.lastTimestamp) THEN "slow"
    ELSE "emitted"

\* the return path processStrumMovement takes
StrumOutcome(pos, timestamp) ==
    IF ~hasState THEN "noState"
    ELSE IF strumState.lastPosition = None THEN "seed"
    ELSE IF timestamp - strumState.lastTimestamp <= 0 THEN "badDt"
    ELSE IF ~AboveThreshold(magnitude(subtract(pos, strumState.lastPosition[1])),
                            timestamp - strumState.lastTimestamp) THEN "slow"
    ELSE IF timestamp - lastStrumTime < STRUM_DEBOUNCE_MS THEN "debounced"
    ELSE "emitted"

\* StrumEventOf that keeps the fret of the strum before, once there is one
StrumEventOf_FretFromLastEvent(pos, timestamp) ==
    LET movement == subtract(pos, strumState.lastPosition[1])
        dtMs     == timestamp - strumState.lastTimestamp
    IN  [ timestamp   |-> timestamp,
          stringIndex |-> StrumString(pos),
          fretIndex   |-> IF store.lastStrumEvent # None
                          THEN store.lastStrumEvent[1].fretIndex
                          ELSE ResolveFret(StrumString(pos)),
          velocity    |-> NormalizedVelocity(magnitude(movement), dtMs),
          direction   |-> IF movement.y > 0 THEN "down" ELSE "up" ]

StrumEventOf(pos, timestamp) ==
    LET movement == subtract(pos, strumState.lastPosition[1])
        dtMs     == timestamp - strumState.lastTimestamp
    IN  [ timestamp   |-> timestamp,
          stringIndex |-> StrumString(pos),
          fretIndex   |-> ResolveFret(StrumString(pos)),
          velocity    |-> NormalizedVelocity(magnitude(movement), dtMs),
          direction   |-> IF movement.y > 0 THEN "down" ELSE "up" ]

\* ProcessStrumMovementIn whose seeding sample also starts the strum debounce
ProcessStrumMovementIn_SeedStartsDebounce(pos, timestamp, st) ==
    LET outcome == StrumOutcome(pos, timestamp)
        moved   == outcome \in {"slow", "debounced", "emitted"}
        ev      == StrumEventOf(pos, timestamp)
    IN  /\ strumState' =
              IF outcome = "seed"
              THEN [strumState EXCEPT !.lastPosition = Some(pos), !.lastTimestamp = timestamp]
              ELSE IF moved
              THEN [ lastPosition  |-> Some(pos),
                     lastTimestamp |-> timestamp,
                     velocity      |-> SpeedMilli(
                                          magnitude(subtract(pos, strumState.lastPosition[1])),
                                          timestamp - strumState.lastTimestamp) ]
              ELSE strumState
        /\ lastStrumTime' = IF outcome \in {"emitted", "seed"} THEN timestamp ELSE lastStrumTime
        /\ IF outcome = "emitted"
           THEN /\ PlayNote(ev.stringIndex, ev.fretIndex, timers,
                            [st EXCEPT !.lastStrumEvent = Some(ev)])
                /\ lastCall' = Call("processStrumMovement", ev.stringIndex, ev.fretIndex, outcome,
                                    PlayNoteOutcome(ev.stringIndex, ev.fretIndex))
           ELSE /\ UNCHANGED <<voices, timers>>
                /\ store' = st
                /\ lastCall' = Call("processStrumMovement", -1, -1, outcome, "-")
        /\ UNCHANGED <<now, hasState, wsVars, awaitingStart>>

\* ProcessStrumMovementIn that stores the sample before it tests the elapsed time
ProcessStrumMovementIn_UpdateBeforeDtCheck(pos, timestamp, st) ==
    LET outcome == StrumOutcome(pos, timestamp)
        moved   == outcome \in {"slow", "debounced", "emitted"}
        ev      == StrumEventOf(pos, timestamp)
    IN  /\ strumState' =
              IF outcome = "seed"
              THEN [strumState EXCEPT !.lastPosition = Some(pos), !.lastTimestamp = timestamp]
              ELSE IF moved
              THEN [ lastPosition  |-> Some(pos),
                     lastTimestamp |-> timestamp,
                     velocity      |-> SpeedMilli(
                                          magnitude(subtract(pos, strumState.lastPosition[1])),
                                          timestamp - strumState.lastTimestamp) ]
              ELSE IF outcome = "badDt"
              THEN [strumState EXCEPT !.lastPosition = Some(pos), !.lastTimestamp = timestamp]
              ELSE strumState
        /\ lastStrumTime' = IF outcome = "emitted" THEN timestamp ELSE lastStrumTime
        /\ IF outcome = "emitted"
           THEN /\ PlayNote(ev.stringIndex, ev.fretIndex, timers,
                            [st EXCEPT !.lastStrumEvent = Some(ev)])
                /\ lastCall' = Call("processStrumMovement", ev.stringIndex, ev.fretIndex, outcome,
                                    PlayNoteOutcome(ev.stringIndex, ev.fretIndex))
           ELSE /\ UNCHANGED <<voices, timers>>
                /\ store' = st
                /\ lastCall' = Call("processStrumMovement", -1, -1, outcome, "-")
        /\ UNCHANGED <<now, hasState, wsVars, awaitingStart>>

\* processStrumMovement(currentPosition, timestamp) run with `st` as the store
\* its caller leaves
ProcessStrumMovementIn(pos, timestamp, st) ==
    LET outcome == StrumOutcome(pos, timestamp)
        moved   == outcome \in {"slow", "debounced", "emitted"}
        ev      == StrumEventOf(pos, timestamp)
    IN  /\ strumState' =
              IF outcome = "seed"
              THEN [strumState EXCEPT !.lastPosition = Some(pos), !.lastTimestamp = timestamp]
              ELSE IF moved
              THEN [ lastPosition  |-> Some(pos),
                     lastTimestamp |-> timestamp,
                     velocity      |-> SpeedMilli(
                                          magnitude(subtract(pos, strumState.lastPosition[1])),
                                          timestamp - strumState.lastTimestamp) ]
              ELSE strumState
        /\ lastStrumTime' = IF outcome = "emitted" THEN timestamp ELSE lastStrumTime
        /\ IF outcome = "emitted"
           THEN /\ PlayNote(ev.stringIndex, ev.fretIndex, timers,
                            [st EXCEPT !.lastStrumEvent = Some(ev)])
                /\ lastCall' = Call("processStrumMovement", ev.stringIndex, ev.fretIndex, outcome,
                                    PlayNoteOutcome(ev.stringIndex, ev.fretIndex))
           ELSE /\ UNCHANGED <<voices, timers>>
                /\ store' = st
                /\ lastCall' = Call("processStrumMovement", -1, -1, outcome, "-")
        /\ UNCHANGED <<now, hasState, wsVars, awaitingStart>>

\* processStrumMovement(currentPosition, timestamp), whenever it is called
ProcessStrumMovementAt(pos, timestamp) ==
    /\ ProcessStrumMovementIn(pos, timestamp, store)
    /\ UNCHANGED trackerVars

\* HandTracker.onResults for the strumming hand, then the strum effect of
\* useAudioEngine: setRightHand(hand), and when the store says initialized and
\* the hand is there, processStrumMovement(indexTip, performance.now())
HandFrame(hand) ==
    LET st == [store EXCEPT !.rightHand = hand]
    IN  IF store.isInitialized /\ hand # None
        THEN /\ ProcessStrumMovementIn(hand[1], now, st)
             /\ UNCHANGED trackerVars
        ELSE /\ store' = st
             /\ lastCall' = Call("setRightHand", -1, -1, "noStrum", "-")
             /\ UNCHANGED <<now, engineVars, wsVars, trackerVars, awaitingStart>>

\* processStrumMovement called with any timestamp, early in the run
ProcessStrumMovement(pos, timestamp) ==
    /\ now <= MaxCallTime
    /\ ProcessStrumMovementAt(pos, timestamp)

(***************************************************************************)
(* The recognizer's answers                                                *)
(***************************************************************************)
\* an inference_result for a chord of the table: correction_active is set by
\* the confidence threshold; override_notes is optional
RecognizerResult(chord, confidencePct, withNotes) ==
    [ type              |-> "inference_result",
      chord_id          |-> chord,
      confidence        |-> confidencePct,
      fingering_map     |-> CHORD_DATABASE[chord].fingering,
      correction_active |-> confidencePct >= ConfidenceThresholdPct,
      override_notes    |-> IF withNotes THEN Some(CHORD_DATABASE[chord].notes) ELSE None ]

\* the same result carrying the required timestamp field
RecognizerResultAt(chord, confidencePct, withNotes, timestamp) ==
    [ type              |-> "inference_result",
      timestamp         |-> timestamp,
      chord_id          |-> chord,
      confidence        |-> confidencePct,
      fingering_map     |-> CHORD_DATABASE[chord].fingering,
      correction_active |-> confidencePct >= ConfidenceThresholdPct,
      override_notes    |-> IF withNotes THEN Some(CHORD_DATABASE[chord].notes) ELSE None ]

InferenceError ==
    [ type              |-> "inference_error",
      chord_id          |-> "unknown",
      confidence        |-> 0,
      fingering_map     |-> << >>,
      correction_active |-> FALSE,
      override_notes    |-> None ]

(***************************************************************************)
(* useWebSocket                                                            *)
(***************************************************************************)
\* WebSocket objects are told apart by an identity drawn from ids
FreeSockets(ids) == ids \ DOMAIN sockets

NewSocket(ids) == CHOOSE id \in FreeSockets(ids) : \A other \in FreeSockets(ids) : id <= other

WithSocket(id, readyState) ==
    [i \in DOMAIN sockets \cup {id} |-> IF i = id THEN readyState ELSE sockets[i]]

WithoutSocket(id) == [i \in DOMAIN sockets \ {id} |-> sockets[i]]

\* a timer is <<due time, n>>, n telling apart the timers due at the same time
NewWsTimer ==
    LET due  == now + RECONNECT_DELAY
        used == {t[2] : t \in {u \in wsTimers : u[1] = due}}
    IN  <<due, CHOOSE n \in 0 .. Cardinality(used) : n \notin used>>

\* connect() returns early when wsRef holds an OPEN or CONNECTING socket
ConnectReturnsEarly ==
    wsRef # NoSocket /\ wsRef \in DOMAIN sockets /\ sockets[wsRef] \in {"open", "connecting"}

\* connect(): new WebSocket(WS_URL) unless one is open or connecting
Connect(ids) ==
    IF ConnectReturnsEarly
    THEN UNCHANGED <<sockets, wsRef>>
    ELSE /\ sockets' = WithSocket(NewSocket(ids), "connecting")
         /\ wsRef' = NewSocket(ids)

\* disconnect()
Disconnect ==
    /\ wsTimers' = IF reconnectTimeout # None THEN wsTimers \ {reconnectTimeout[1]} ELSE wsTimers
    /\ reconnectTimeout' = None
    /\ sockets' = IF wsRef # NoSocket /\ wsRef \in DOMAIN sockets
                  THEN [sockets EXCEPT ![wsRef] = "closing"]
                  ELSE sockets
    /\ wsRef' = NoSocket
    /\ store' = [store EXCEPT !.wsConnected = FALSE]

\* useEffect on mount: connect() (the page is not mounted again while a
\* reconnect timer is pending unless remountEarly)
Mount(ids, remountEarly) ==
    /\ ~mounted
    /\ remountEarly \/ wsTimers = {}
    /\ ConnectReturnsEarly \/ FreeSockets(ids) # {}
    /\ mounted' = TRUE
    /\ Connect(ids)
    /\ lastCall' = Call("connect", -1, -1, IF ConnectReturnsEarly THEN "early" ELSE "created", "-")
    /\ UNCHANGED <<now, engineVars, store, reconnectAttempts, reconnectTimeout, wsTimers, outbox, trackerVars, awaitingStart>>

\* useEffect cleanup on unmount: disconnect()
Unmount ==
    /\ mounted
    /\ mounted' = FALSE
    /\ Disconnect
    /\ lastCall' = Call("disconnect", -1, -1, "-", "-")
    /\ UNCHANGED <<now, engineVars, reconnectAttempts, outbox, trackerVars, awaitingStart>>

\* the reconnect timer fires: connect()
ReconnectFire(t, ids) ==
    /\ t \in wsTimers
    /\ t[1] <= now
    /\ ConnectReturnsEarly \/ FreeSockets(ids) # {}
    /\ wsTimers' = wsTimers \ {t}
    /\ Connect(ids)
    /\ lastCall' = Call("reconnect", -1, -1, IF ConnectReturnsEarly THEN "early" ELSE "created", "-")
    /\ UNCHANGED <<now, engineVars, store, reconnectAttempts, reconnectTimeout, mounted, outbox, trackerVars, awaitingStart>>

\* OnOpen that leaves the attempt counter as it is
OnOpen_KeepsAttempts(id) ==
    /\ id \in DOMAIN sockets
    /\ sockets[id] = "connecting"
    /\ sockets' = [sockets EXCEPT ![id] = "open"]
    /\ store' = [store EXCEPT !.wsConnected = TRUE, !.error = ""]
    /\ lastCall' = Call("onopen", id, -1, "-", "-")
    /\ UNCHANGED <<now, engineVars, wsRef, reconnectAttempts, reconnectTimeout, wsTimers,
                   mounted, outbox, trackerVars, awaitingStart>>

\* ws.onopen
OnOpen(id) ==
    /\ id \in DOMAIN sockets
    /\ sockets[id] = "connecting"
    /\ sockets' = [sockets EXCEPT ![id] = "open"]
    /\ store' = [store EXCEPT !.wsConnected = TRUE, !.error = ""]
    /\ reconnectAttempts' = 0
    /\ lastCall' = Call("onopen", id, -1, "-", "-")
    /\ UNCHANGED <<now, engineVars, wsRef, reconnectTimeout, wsTimers, mounted, outbox, trackerVars, awaitingStart>>

\* ws.onclose: the socket failed to connect, the connection was lost, or the
\* close handshake started by disconnect() completed
OnClose(id) ==
    /\ id \in DOMAIN sockets
    /\ sockets' = WithoutSocket(id)
    /\ wsRef' = NoSocket
    /\ IF reconnectAttempts < MAX_RECONNECT_ATTEMPTS
       THEN /\ reconnectAttempts' = reconnectAttempts + 1
            /\ reconnectTimeout' = Some(NewWsTimer)
            /\ wsTimers' = wsTimers \cup {NewWsTimer}
            /\ store' = [store EXCEPT !.wsConnected = FALSE]
       ELSE /\ store' = [store EXCEPT !.wsConnected = FALSE, !.error = "offline"]
            /\ UNCHANGED <<reconnectAttempts, reconnectTimeout, wsTimers>>
    /\ lastCall' = Call("onclose", id, -1,
                        IF reconnectAttempts < MAX_RECONNECT_ATTEMPTS
                        THEN "reconnecting" ELSE "offline", "-")
    /\ UNCHANGED <<now, engineVars, mounted, outbox, trackerVars, awaitingStart>>

\* ApplyResult that only ever switches correction on
ApplyResult_StickyCorrection(result) ==
    [store EXCEPT !.lastInferenceResult = Some(result),
                  !.currentChord = result.chord_id,
                  !.correctionActive = @ \/ result.correction_active,
                  !.overrideNotes = IF result.override_notes # None
                                    THEN result.override_notes[1] ELSE @]

\* the store after an inference_result
ApplyResult(result) ==
    [store EXCEPT !.lastInferenceResult = Some(result),
                  !.currentChord = result.chord_id,
                  !.correctionActive = result.correction_active,
                  !.overrideNotes = IF result.override_notes # None
                                    THEN result.override_notes[1] ELSE @]

\* OnMessage that drops the result in effect when the message is not a result
OnMessage_ErrorClearsResult(id, data) ==
    /\ id \in DOMAIN sockets
    /\ sockets[id] = "open"
    /\ store' = IF data.type = "inference_result"
                THEN ApplyResult(data)
                ELSE [store EXCEPT !.lastInferenceResult = None,
                                   !.currentChord = "unknown",
                                   !.correctionActive = FALSE,
                                   !.overrideNotes = << >>]
    /\ lastCall' = Call("onmessage", id, -1, data.type, "-")
    /\ UNCHANGED <<now, engineVars, wsVars, trackerVars, awaitingStart>>

\* ws.onmessage
OnMessage(id, data) ==
    /\ id \in DOMAIN sockets
    /\ sockets[id] = "open"
    /\ store' = IF data.type = "inference_result" THEN ApplyResult(data) ELSE store
    /\ lastCall' = Call("onmessage", id, -1, data.type, "-")
    /\ UNCHANGED <<now, engineVars, wsVars, trackerVars, awaitingStart>>

\* sendInference(request): ws.send when wsRef holds an open socket
SendInference ==
    /\ Len(outbox) < MaxRequests
    /\ IF wsRef # NoSocket /\ wsRef \in DOMAIN sockets /\ sockets[wsRef] = "open"
       THEN /\ outbox' = Append(outbox, [socket |-> wsRef, time |-> now])
            /\ lastCall' = Call("sendInference", wsRef, -1, "sent", "-")
       ELSE /\ outbox' = outbox
            /\ lastCall' = Call("sendInference", wsRef, -1, "dropped", "-")
    /\ UNCHANGED <<now, engineVars, store, sockets, wsRef, reconnectAttempts,
                   reconnectTimeout, wsTimers, mounted, trackerVars, awaitingStart>>

\* event.data as it arrives: text that is JSON for `data`, or is not JSON
RawMessage(data) == [wellFormed |-> TRUE, data |-> data]

Garbage == [wellFormed |-> FALSE, data |-> << >>]

\* JSON.parse(event.data): the value, or nothing when it throws
JsonParse(raw) == IF raw.wellFormed THEN Some(raw.data) ELSE None

\* a message that parses and has a type the handler does not know
UnknownMessage ==
    [ type              |-> "pong",
      chord_id          |-> "unknown",
      confidence        |-> 0,
      fingering_map     |-> << >>,
      correction_active |-> FALSE,
      override_notes    |-> None ]

\* ws.onmessage from the event: the try block with its catch
OnRawMessage(id, raw) ==
    IF JsonParse(raw) = None
    THEN /\ id \in DOMAIN sockets
         /\ sockets[id] = "open"
         /\ lastCall' = Call("onmessage", id, -1, "unparsable", "-")
         /\ UNCHANGED <<now, engineVars, store, wsVars, trackerVars, awaitingStart>>
    ELSE OnMessage(id, JsonParse(raw)[1])

(***************************************************************************)
(* The audio engine on its own                                             *)
(***************************************************************************)
PlayNoteStrings == {-1, 2, 6}

PlayNoteFrets == {-1, 3}

ChordFingerings ==
    { CHORD_DATABASE.D_Major.fingering,
      <<0, 0, 0, 0, 0, 0, 0>> }

NextAudio ==
    \/ Initialize
    \/ Dispose
    \/ \E s \in PlayNoteStrings, f \in PlayNoteFrets : PlayNoteCall(s, f)
    \/ \E s \in PlayNoteStrings : ReleaseNoteCall(s)
    \/ \E fg \in ChordFingerings : PlayChordCall(fg)
    \/ StopAllCall
    \/ \E m \in BOOLEAN : SetMuted(m)
    \/ Tick
    \/ Sleep
    \/ \E t \in timers : AutoRelease(t)
    \/ \E t \in timers : ChordNote(t)

SpecAudio == Init /\ [][NextAudio]_vars

(***************************************************************************)
(* The gesture detector on its own                                         *)
(***************************************************************************)
StrumYs == {-3, 7, 14}

StrumPositions == {Point(0, y, 0) : y \in StrumYs}

StrumTimestamps == {0, 10, 50, 60, 110}

NextStrum ==
    \/ Initialize
    \/ Dispose
    \/ \E p \in StrumPositions, ts \in StrumTimestamps : ProcessStrumMovement(p, ts)
    \/ Tick
    \/ Sleep
    \/ \E t \in timers : AutoRelease(t)

SpecStrum == Init /\ [][NextStrum]_vars

(***************************************************************************)
(* The pipeline: recognition channel, store, gesture detector, voices      *)
(***************************************************************************)
Chords == {"C_Major"}

Confidences == {84, 85}

Messages ==
    {RecognizerResult(c, p, n) : c \in Chords, p \in Confidences, n \in BOOLEAN}
        \cup {InferenceError}

PipelinePositions == {Point(0, 2, 0), Point(0, 7, 0)}

PipelineTimestamps == {0, 60}

PipelineSockets == {1}

Next ==
    \/ Initialize
    \/ \E p \in PipelinePositions, ts \in PipelineTimestamps : ProcessStrumMovement(p, ts)
    \/ Mount(PipelineSockets, FALSE)
    \/ Unmount
    \/ \E id \in DOMAIN sockets : OnOpen(id)
    \/ \E id \in DOMAIN sockets : OnClose(id)
    \/ \E id \in DOMAIN sockets, m \in Messages : OnMessage(id, m)
    \/ \E t \in wsTimers : ReconnectFire(t, PipelineSockets)
    \/ Tick
    \/ Sleep
    \/ \E t \in timers : AutoRelease(t)

Spec == Init /\ [][Next]_vars

(***************************************************************************)
(* The audio engine with its timers running                                *)
(***************************************************************************)
ReleaseStrings == {2, 5}

NextRelease ==
    \/ Initialize
    \/ Dispose
    \/ \E s \in ReleaseStrings : PlayNoteCall(s, 3)
    \/ \E s \in ReleaseStrings : ReleaseNoteCall(s)
    \/ StopAllCall
    \/ Tick
    \/ Sleep
    \/ \E t \in timers : AutoRelease(t)

\* the clock runs and a timer that is due fires
SpecAudioFair ==
    /\ Init
    /\ [][NextRelease]_vars
    /\ WF_vars(Sleep)
    /\ WF_vars(\E t \in timers : AutoRelease(t))

(***************************************************************************)
(* Fret arbitration: results of the recognizer, then strums                *)
(***************************************************************************)
FingeringChords == {"C_Major", "D_Major", "E_Major"}

FingeringMessages ==
    {RecognizerResult(c, p, n) : c \in FingeringChords, p \in Confidences, n \in BOOLEAN}

FingeringPositions == {Point(0, 2, 0), Point(0, 7, 0), Point(0, 12, 0)}

FingeringStep(messages) ==
    \/ Initialize
    \/ \E p \in FingeringPositions, ts \in PipelineTimestamps : ProcessStrumMovement(p, ts)
    \/ Mount(PipelineSockets, FALSE)
    \/ \E id \in DOMAIN sockets : OnOpen(id)
    \/ \E id \in DOMAIN sockets, m \in messages : OnMessage(id, m)
    \/ Tick
    \/ Sleep
    \/ \E t \in timers : AutoRelease(t)

NextFingering == FingeringStep(FingeringMessages)

SpecFingering == Init /\ [][NextFingering]_vars

(***************************************************************************)
(* Results that age: frames keep coming after a result was received        *)
(***************************************************************************)
\* the frame clock: the next capture frame
FrameTick ==
    /\ now + TickMs <= MaxFrameTime
    /\ NoTimerBefore(now + TickMs)
    /\ now' = now + TickMs
    /\ lastCall' = Call("tick", -1, -1, "-", "-")
    /\ UNCHANGED <<engineVars, store, wsVars, trackerVars, awaitingStart>>

\* a frame: processStrumMovement(indexTip, performance.now())
Frame(pos) == ProcessStrumMovementAt(pos, now)

\* a result stamped and received now
Deliver(id, chord, confidencePct, withNotes) ==
    OnMessage(id, RecognizerResultAt(chord, confidencePct, withNotes, now))

NextStale ==
    \/ Initialize
    \/ \E p \in PipelinePositions : Frame(p)
    \/ Mount(PipelineSockets, FALSE)
    \/ \E id \in DOMAIN sockets : OnOpen(id)
    \/ \E id \in DOMAIN sockets, c \in Chords, p \in Confidences, n \in BOOLEAN :
           Deliver(id, c, p, n)
    \/ FrameTick

SpecStale == Init /\ [][NextStale]_vars

(***************************************************************************)
(* Fret arbitration with override notes the chord table does not hold      *)
(***************************************************************************)
\* override notes below the open strings, and fewer than six of them
OverrideNoteSets == { <<38, 45, 52>>, <<41, 44, 50, 55, 59, 76>> }

\* a result of the recognizer with the override notes it chose
RecognizerResultWithNotes(chord, confidencePct, notes) ==
    [ type              |-> "inference_result",
      chord_id          |-> chord,
      confidence        |-> confidencePct,
      fingering_map     |-> CHORD_DATABASE[chord].fingering,
      correction_active |-> confidencePct >= ConfidenceThresholdPct,
      override_notes    |-> Some(notes) ]

OverrideMessages ==
    {RecognizerResultWithNotes(c, p, n) : c \in Chords, p \in Confidences, n \in OverrideNoteSets}

NextOverride == FingeringStep(OverrideMessages)

SpecOverride == Init /\ [][NextOverride]_vars

(***************************************************************************)
(* The recognition channel with every kind of message                      *)
(***************************************************************************)
RawMessages ==
    {RawMessage(m) : m \in Messages \cup {UnknownMessage}} \cup {Garbage}

NextMessages ==
    \/ Mount(PipelineSockets, FALSE)
    \/ Unmount
    \/ \E id \in DOMAIN sockets : OnOpen(id)
    \/ \E id \in DOMAIN sockets : OnClose(id)
    \/ \E id \in DOMAIN sockets, raw \in RawMessages : OnRawMessage(id, raw)
    \/ \E t \in wsTimers : ReconnectFire(t, PipelineSockets)
    \/ Sleep

SpecMessages == Init /\ [][NextMessages]_vars

(***************************************************************************)
(* Reconnection with the recognizer unreachable, the hook mounted,         *)
(* unmounted and mounted again with the same refs (React strict mode)      *)
(***************************************************************************)
ReconnectSockets == {1, 2}

\* nothing else happens until the next reconnect timer is due
AwaitTimer ==
    /\ DueTimes # {}
    /\ NextDue > now
    /\ now' = NextDue
    /\ lastCall' = Call("sleep", -1, -1, "-", "-")
    /\ UNCHANGED <<engineVars, store, wsVars, trackerVars, awaitingStart>>

NextReconnect ==
    \/ Mount(ReconnectSockets, TRUE)
    \/ Unmount
    \/ \E id \in DOMAIN sockets : OnClose(id)
    \/ \E t \in wsTimers : ReconnectFire(t, ReconnectSockets)
    \/ AwaitTimer

SpecReconnect == Init /\ [][NextReconnect]_vars

(***************************************************************************)
(* Inference requests on the recognition channel                           *)
(***************************************************************************)
NextSend ==
    \/ Mount(PipelineSockets, FALSE)
    \/ \E id \in DOMAIN sockets : OnOpen(id)
    \/ \E id \in DOMAIN sockets : OnClose(id)
    \/ \E t \in wsTimers : ReconnectFire(t, PipelineSockets)
    \/ SendInference
    \/ FrameTick
    \/ Sleep

SpecSend == Init /\ [][NextSend]_vars

(***************************************************************************)
(* The strumming hand tracked frame by frame, lost and found again         *)
(***************************************************************************)
Hands == {None} \cup {Some(p) : p \in PipelinePositions}

NextHand ==
    \/ Initialize
    \/ \E h \in Hands : HandFrame(h)
    \/ FrameTick

SpecHand == Init /\ [][NextHand]_vars

(***************************************************************************)
(* HandTracker: one MediaPipe result per capture frame                     *)
(***************************************************************************)
\* the entries of enum LandmarkIndex the tracker reads
LandmarkIndex ==
    [ WRIST |-> 0,
      THUMB_MCP |-> 2,   THUMB_TIP |-> 4,
      INDEX_MCP |-> 5,   INDEX_TIP |-> 8,
      MIDDLE_MCP |-> 9,  MIDDLE_TIP |-> 12,
      RING_MCP |-> 13,   RING_TIP |-> 16,
      PINKY_MCP |-> 17,  PINKY_TIP |-> 20 ]

\* the landmark indices of processHand's fingerTips, thumb first
FingerTipIndices ==
    << LandmarkIndex.THUMB_TIP, LandmarkIndex.INDEX_TIP, LandmarkIndex.MIDDLE_TIP,
       LandmarkIndex.RING_TIP, LandmarkIndex.PINKY_TIP >>

\* the knuckle each fingertip is compared with in isOpen
FingerMcpIndices ==
    << LandmarkIndex.THUMB_MCP, LandmarkIndex.INDEX_MCP, LandmarkIndex.MIDDLE_MCP,
       LandmarkIndex.RING_MCP, LandmarkIndex.PINKY_MCP >>

\* landmarks[index]: None where JavaScript reads undefined
LandmarkAt(landmarks, index) ==
    IF index + 1 <= Len(landmarks) THEN Some(landmarks[index + 1]) ELSE None

\* distance(a, b) of lib/math
distance(a, b) == magnitude(subtract(a, b))

\* normalizeLandmarks(landmarks, anchor, scaleFactor) with
\* scaleFactor = palmWidth > 0 ? palmWidth : 0.1, in hundredths, rounded down;
\* positions are in units of 1 / PosScale, so 0.1 is PosScale / 10
normalizeLandmarks(landmarks) ==
    LET anchor    == landmarks[LandmarkIndex.WRIST + 1]
        palmWidth == distance(landmarks[LandmarkIndex.INDEX_MCP + 1],
                              landmarks[LandmarkIndex.PINKY_MCP + 1])
        Scaled(d) == IF palmWidth > 0
                     THEN (d * 100) \div palmWidth
                     ELSE (d * 1000) \div PosScale
    IN  [ i \in 1..Len(landmarks) |->
            Point(Scaled(landmarks[i].x - anchor.x),
                  Scaled(landmarks[i].y - anchor.y),
                  Scaled(landmarks[i].z - anchor.z)) ]

\* smoothLandmarks(current, prev, EMA_ALPHA): alpha * current + (1 - alpha) * prev
\* point by point, and current itself when there is no previous set
smoothLandmarks(current, prev) ==
    LET Ema(c, p) == (EMA_ALPHA_PCT * c + (100 - EMA_ALPHA_PCT) * p) \div 100
    IN  IF prev = None
        THEN current
        ELSE [ i \in 1..Len(current) |->
                 Point(Ema(current[i].x, prev[1][i].x),
                       Ema(current[i].y, prev[1][i].y),
                       Ema(current[i].z, prev[1][i].z)) ]

\* flattenLandmarks(points): [x0, y0, z0, x1, y1, z1, ...]
flattenLandmarks(points) ==
    [ k \in 1..(DIMS_PER_LANDMARK * Len(points)) |->
        LET p == points[((k - 1) \div DIMS_PER_LANDMARK) + 1]
            c == (k - 1) % DIMS_PER_LANDMARK
        IN  IF c = 0 THEN p.x ELSE IF c = 1 THEN p.y ELSE p.z ]

\* fingerTips.every((tip, i) => tip.y < landmarks[mcpIndex].y): every() stops
\* at the first finger that is not above its knuckle; reading .y of a
\* landmark that is not there throws a TypeError
IsOpenOutcome(landmarks) ==
    LET Missing(i) == LandmarkAt(landmarks, FingerTipIndices[i]) = None
        Above(i)   == landmarks[FingerTipIndices[i] + 1].y
                        < landmarks[FingerMcpIndices[i] + 1].y
        Stops      == {i \in 1..Len(FingerTipIndices) : Missing(i) \/ ~Above(i)}
        first      == CHOOSE i \in Stops : \A j \in Stops : i <= j
    IN  IF Stops = {} THEN "open"
        ELSE IF Missing(first) THEN "TypeError"
        ELSE "closed"

\* processHand(landmarks, worldLandmarks, handedness, prevLandmarks) for a set
\* that has its wrist and knuckles; raw, palmCenter and confidence are left out
processHand(landmarks, handedness, prevLandmarks) ==
    [ handedness    |-> handedness,
      normalized    |-> flattenLandmarks(smoothLandmarks(normalizeLandmarks(landmarks),
                                                         prevLandmarks)),
      wristPosition |-> landmarks[LandmarkIndex.WRIST + 1],
      fingerTips    |-> [i \in 1..Len(FingerTipIndices) |->
                            LandmarkAt(landmarks, FingerTipIndices[i])],
      isOpen        |-> IsOpenOutcome(landmarks) = "open" ]

\* the slot of a detected hand: handedness = label === 'Left' ? 'Left' : 'Right',
\* isLeft = handedness === 'Right' (the labels are mirrored)
SlotOf(hand) == IF hand.label = "Left" THEN "right" ELSE "left"

\* one pass of the loop over multiHandLandmarks, on the cache and the two
\* store slots as the passes before it left them (rightSet: setRightHand was
\* called with a new hand); a pass that throws ends the handler
OnResultsPass(acc, hand) ==
    LET prevKey         == SlotOf(hand)
        processedHand   == processHand(hand.landmarks,
                                       IF prevKey = "left" THEN "Left" ELSE "Right",
                                       acc.prev[prevKey])
        normalizedPoints == normalizeLandmarks(hand.landmarks)
    IN  IF acc.thrown
        THEN acc
        ELSE IF IsOpenOutcome(hand.landmarks) = "TypeError"
        THEN [acc EXCEPT !.thrown = TRUE]
        ELSE IF prevKey = "left"
        THEN [acc EXCEPT !.prev.left = Some(normalizedPoints),
                         !.leftHand = Some(processedHand)]
        ELSE [acc EXCEPT !.prev.right = Some(normalizedPoints),
                         !.rightHand = Some(processedHand), !.rightSet = TRUE]

RECURSIVE OnResultsLoop(_, _, _)
\* for (let i = 0; i < multiHandLandmarks.length; i++)
OnResultsLoop(acc, results, i) ==
    IF i > Len(results)
    THEN acc
    ELSE OnResultsLoop(OnResultsPass(acc, results[i]), results, i + 1)

\* the cache and the store slots when onResults(results) returns or throws:
\* both cleared when no hand is reported; otherwise the loop, then the slot
\* of the hand that is not there cleared when one hand is reported
OnResultsEnd(results) ==
    LET start  == [ prev |-> prevLandmarksRef, leftHand |-> store.leftHand,
                    rightHand |-> store.rightHand, rightSet |-> FALSE,
                    thrown |-> FALSE ]
        looped == OnResultsLoop(start, results, 1)
    IN  IF Len(results) = 0
        THEN [ prev |-> [left |-> None, right |-> None], leftHand |-> None,
               rightHand |-> None, rightSet |-> TRUE, thrown |-> FALSE ]
        ELSE IF looped.thrown \/ Len(results) # 1
        THEN looped
        ELSE IF results[1].label = "Left"
        THEN [looped EXCEPT !.leftHand = None, !.prev.left = None]
        ELSE [looped EXCEPT !.rightHand = None, !.prev.right = None]

\* onResults(results), then the strum effect of useAudioEngine when rightHand
\* was replaced: processStrumMovement(fingerTips[1], performance.now()) when
\* the store says initialized and the hand and its index tip are there
OnResults(results) ==
    \E end \in {OnResultsEnd(results)} :
      LET st  == [store EXCEPT !.leftHand = end.leftHand, !.rightHand = end.rightHand,
                               !.isTracking = Len(results) # 0]
          outcome == IF Len(results) = 0 THEN "noHands"
                     ELSE IF end.thrown THEN "TypeError" ELSE "ok"
          strums  == /\ store.isInitialized
                     /\ end.rightSet
                     /\ end.rightHand # None
                     /\ end.rightHand[1].fingerTips[2] # None
      IN  /\ prevLandmarksRef' = end.prev
          /\ lastResults' = [hands |-> results, outcome |-> outcome]
          /\ IF strums
             THEN ProcessStrumMovementIn(end.rightHand[1].fingerTips[2][1], now, st)
             ELSE /\ store' = st
                  /\ lastCall' = Call("onResults", -1, -1, outcome, "-")
                  /\ UNCHANGED <<now, engineVars, wsVars, awaitingStart>>

(***************************************************************************)
(* The hand tracker alone: frames with no, one or two hands                *)
(***************************************************************************)
\* a hand with its wrist at (wx, wy): the thumb and the four fingers side by
\* side, two units apart, four landmarks each, stretched upwards (open) or
\* curled down below the knuckles
HandShape(open, count, wx, wy) ==
    [ i \in 1..count |->
        IF i = 1
        THEN Point(wx, wy, 0)
        ELSE LET finger == (i - 2) \div 4
                 joint  == (i - 2) % 4
             IN  Point(wx + 2 * finger - 4,
                       IF open THEN wy - 2 - joint ELSE wy - 2 + joint,
                       0) ]

\* complete landmark sets, and sets that lack the last landmark (PINKY_TIP)
LandmarkSets ==
    {HandShape(open, count, 6, 7) :
        open \in BOOLEAN, count \in {LANDMARKS_PER_HAND - 1, LANDMARKS_PER_HAND}}

\* multiHandLandmarks with multiHandedness: up to maxNumHands hands, each
\* with its label
TrackerResults ==
    LET DetectedHands == {[label |-> l, landmarks |-> lm] :
                             l \in {"Left", "Right"}, lm \in LandmarkSets}
    IN  {<< >>} \cup {<<h>> : h \in DetectedHands}
                \cup {<<g, h>> : g, h \in DetectedHands}

\* smoothLandmarks is only applied to a cached set as long as the new one
SameLengthAsCache(results) ==
    /\ \A i \in 1..Len(results) :
          LET cached == prevLandmarksRef[SlotOf(results[i])]
          IN  IF cached = None THEN TRUE
              ELSE Len(cached[1]) = Len(results[i].landmarks)
    /\ \A i, j \in 1..Len(results) :
          SlotOf(results[i]) = SlotOf(results[j])
              => Len(results[i].landmarks) = Len(results[j].landmarks)

NextTracker ==
    \/ Initialize
    \/ \E results \in TrackerResults :
          /\ SameLengthAsCache(results)
          /\ OnResults(results)

SpecTracker == Init /\ [][NextTracker]_vars

(***************************************************************************)
(* Reconnection with a recognizer that is reachable at times               *)
(***************************************************************************)
\* the next reconnect timer comes due, early enough in the run
ReopenWait ==
    /\ DueTimes # {}
    /\ NextDue <= MaxReopenTime
    /\ AwaitTimer

NextReopen ==
    \/ Mount(PipelineSockets, FALSE)
    \/ Unmount
    \/ \E id \in DOMAIN sockets : OnOpen(id)
    \/ \E id \in DOMAIN sockets : OnClose(id)
    \/ \E t \in wsTimers : ReconnectFire(t, PipelineSockets)
    \/ ReopenWait

SpecReopen == Init /\ [][NextReopen]_vars

(***************************************************************************)
(* The audio engine with initialize() suspended at its await               *)
(***************************************************************************)
NextInit ==
    \/ InitializeBegin
    \/ InitializeResume
    \/ Dispose
    \/ \E s \in {2, 4} : PlayNoteCall(s, 0)
    \/ StopAllCall
    \/ Tick
    \/ Sleep
    \/ \E t \in timers : AutoRelease(t)

SpecInit == Init /\ [][NextInit]_vars

(***************************************************************************)
(* Properties                                                              *)
(***************************************************************************)
ReleaseTimers == {t \in timers : t.kind = "release"}

IsPlayNote(call) == call.op \in {"playNote", "chordNote"}

\* C1: two Strum Events that are emitted one after the other have timestamps
\* at least STRUM_DEBOUNCE_MS apart (so any two emitted events do, the
\* timestamps of emitted events being increasing)
C1_StrumEventsDebounced ==
    [][ (store.lastStrumEvent # None /\ store'.lastStrumEvent # store.lastStrumEvent)
            => store'.lastStrumEvent[1].timestamp - store.lastStrumEvent[1].timestamp
                   >= STRUM_DEBOUNCE_MS ]_vars

\* a fast movement 1..49 ms after an emitted Strum Event was rejected
C1_Witness ==
    /\ lastCall.op = "processStrumMovement"
    /\ lastCall.outcome = "debounced"
    /\ store.lastStrumEvent # None
    /\ strumState.lastTimestamp - store.lastStrumEvent[1].timestamp \in 1 .. 49

\* C2: as long as no Recognition Result has been received, correction-active
\* is false and the fret of every Strum Event is 0 (open string)
C2_NoResultGeometric ==
    store.lastInferenceResult = None
        => /\ store.correctionActive = FALSE
           /\ store.lastStrumEvent # None => store.lastStrumEvent[1].fretIndex = 0

\* a strum sounded after the reconnection attempts were exhausted, no result
\* ever received
C2_Witness ==
    /\ store.lastInferenceResult = None
    /\ store.error = "offline"
    /\ ~store.wsConnected
    /\ lastCall.op = "processStrumMovement"
    /\ lastCall.outcome = "emitted"
    /\ lastCall.note = "attack"

\* C3: while the recognition channel is not connected, correction-active is
\* false and a strum resolves fret 0
C3_GeometricWhenDisconnected ==
    ~store.wsConnected
        => /\ store.correctionActive = FALSE
           /\ (lastCall.op = "processStrumMovement" /\ lastCall.outcome = "emitted")
                  => store.lastStrumEvent[1].fretIndex = 0

\* C4: at most MaxPolyphony voices are playing, each the voice of one of the
\* six strings
C4_PolyphonyBound ==
    /\ Cardinality(PlayingStrings) <= MaxPolyphony
    /\ PlayingStrings \subseteq 0 .. 5
    /\ store.activeStrings \subseteq 0 .. 5

\* all six voices are playing and the trigger of a seventh string was rejected
C4_Witness ==
    /\ Cardinality(PlayingStrings) = 6
    /\ lastCall.op = "chordNote"
    /\ lastCall.string = 6
    /\ lastCall.outcome = "badIndex"

\* C5: a playNote on a string less than STRUM_DEBOUNCE_MS after the last
\* accepted trigger of its voice leaves the voices, the active strings and the
\* pending auto-release timers unchanged
C5_DebouncedIsNoOp ==
    [][ \A s \in StringIndices :
            ( /\ IsPlayNote(lastCall')
              /\ lastCall'.string = s
              /\ hasState
              /\ now - voices[s].lastNoteTime < STRUM_DEBOUNCE_MS )
            => /\ voices' = voices
               /\ store'.activeStrings = store.activeStrings
               /\ ReleaseTimers' = ReleaseTimers ]_vars

\* string 2 was triggered again 1..49 ms after its accepted trigger
C5_Witness ==
    /\ lastCall.op = "playNote"
    /\ lastCall.string = 2
    /\ lastCall.outcome = "debounced"
    /\ voices[2].isPlaying
    /\ now - voices[2].lastNoteTime \in 1 .. 49

\* C6: a playNote with a string index outside [0,5], with the mute sentinel as
\* fret, or under global mute leaves the voices, the active strings and the
\* pending auto-release timers unchanged
C6_RejectedIsNoOp ==
    [][ ( /\ IsPlayNote(lastCall')
          /\ \/ lastCall'.string \notin 0 .. 5
             \/ lastCall'.fret < 0
             \/ store.isMuted )
        => /\ voices' = voices
           /\ store'.activeStrings = store.activeStrings
           /\ ReleaseTimers' = ReleaseTimers ]_vars

\* a trigger that passed the debounce with a valid string and fret was
\* rejected by the global mute
C6_Witness ==
    /\ lastCall.op = "playNote"
    /\ lastCall.string = 2
    /\ lastCall.fret = 3
    /\ lastCall.outcome = "globalMute"
    /\ store.isMuted
    /\ now - voices[2].lastNoteTime >= STRUM_DEBOUNCE_MS

\* C7: an auto-release timer that releases a voice does so SUSTAIN_MS after
\* the last accepted trigger of that voice
C7_AutoReleaseAfterSustain ==
    (lastCall.op = "autoRelease" /\ lastCall.outcome = "released")
        => now - voices[lastCall.string].lastNoteTime = SUSTAIN_MS

\* C8: a voice that is playing is idle again later, and its string leaves the
\* active-string set
C8_PlayingReturnsToIdle ==
    \A s \in 0 .. 5 :
        /\ (hasState /\ voices[s].isPlaying) ~> (~hasState \/ ~voices[s].isPlaying)
        /\ (s \in store.activeStrings) ~> (s \notin store.activeStrings)

\* a voice nobody released was released by its timer
C8_Witness ==
    /\ lastCall.op = "autoRelease"
    /\ lastCall.outcome = "released"
    /\ ~voices[lastCall.string].isPlaying
    /\ lastCall.string \notin store.activeStrings

\* C9: between any two attacks on the same voice there is a release of that
\* voice: no voice is attacked twice in a row
C9_ReleaseBetweenAttacks ==
    \A s \in DOMAIN voices : voices[s].envelope # <<"attack", "attack">>

\* a sounding voice was triggered again
C9_Witness ==
    /\ IsPlayNote(lastCall)
    /\ lastCall.outcome = "attack"
    /\ voices[lastCall.string].envelope = <<"attack", "attack">>
    /\ voices[lastCall.string].lastNoteTime = now

StrumUnderCorrection ==
    /\ lastCall.op = "processStrumMovement"
    /\ lastCall.outcome = "emitted"
    /\ store.wsConnected
    /\ store.lastInferenceResult # None
    /\ store.lastInferenceResult[1].confidence >= ConfidenceThresholdPct

\* C11: a strum resolved under a Recognition Result with confidence at or
\* above the threshold has correction-active true and plays, on the strummed
\* string, the fret of the result's fingering map for that string
C11_StrumUsesAIFingering ==
    StrumUnderCorrection
        => /\ store.correctionActive
           /\ lastCall.fret = store.lastInferenceResult[1].fingering_map[lastCall.string + 1]

\* the staleness window: one inference cycle
StalenessWindowMs == InferenceThrottleMs

\* C12: a strum emitted more than the staleness window after the latest
\* Recognition Result was received is resolved with fret 0 and
\* correction-active false
C12_StaleResultIgnored ==
    ( /\ lastCall.op = "processStrumMovement"
      /\ lastCall.outcome = "emitted"
      /\ store.lastInferenceResult # None
      /\ now - store.lastInferenceResult[1].timestamp > StalenessWindowMs )
        => /\ ~store.correctionActive
           /\ lastCall.fret = 0

\* C13: a strum on a string that the fingering in effect marks as muted
\* (negative fret) triggers no voice
C13_MutedStringSilent ==
    ( /\ StrumUnderCorrection
      /\ store.correctionActive
      /\ store.lastInferenceResult[1].fingering_map[lastCall.string + 1] < 0 )
        => /\ lastCall.note # "attack"
           /\ lastCall.string \notin PlayingStrings

\* C14: the fret of a Strum Event is never negative, and a fret taken from an
\* override note is the note minus the open-string pitch of the strummed
\* string, or 0 when that difference is negative
C14_FretFromOverrideNote ==
    /\ store.lastStrumEvent # None => store.lastStrumEvent[1].fretIndex >= 0
    /\ ( /\ lastCall.op = "processStrumMovement"
         /\ lastCall.outcome = "emitted"
         /\ store.correctionActive
         /\ Len(store.overrideNotes) > lastCall.string )
           => LET offset == store.overrideNotes[lastCall.string + 1]
                                - GUITAR_TUNING[lastCall.string + 1]
              IN  /\ store.lastStrumEvent[1].stringIndex = lastCall.string
                  /\ store.lastStrumEvent[1].fretIndex = IF offset < 0 THEN 0 ELSE offset
                  /\ lastCall.fret = store.lastStrumEvent[1].fretIndex

\* a strum on string 0 under override note 38, below the open string (40),
\* resolved fret 0 and sounded
C14_Witness ==
    /\ lastCall.op = "processStrumMovement"
    /\ lastCall.outcome = "emitted"
    /\ lastCall.note = "attack"
    /\ store.correctionActive
    /\ Len(store.overrideNotes) > lastCall.string
    /\ store.overrideNotes[lastCall.string + 1] < GUITAR_TUNING[lastCall.string + 1]
    /\ store.lastStrumEvent[1].fretIndex = 0

RECURSIVE Pow2(_)
Pow2(n) == IF n <= 0 THEN 1 ELSE 2 * Pow2(n - 1)

\* the delay of the n-th consecutive reconnection attempt under exponential
\* backoff: 1 s, 2 s, 4 s, 8 s, 8 s, ...
BackoffDelay(n) == Min(ReconnectBaseDelay * Pow2(n - 1), ReconnectMaxDelay)

\* C16: the reconnection that a connection loss schedules is due after the
\* base delay doubled per consecutive failure, capped at the maximum delay
C16_ExponentialBackoff ==
    (lastCall.op = "onclose" /\ lastCall.outcome = "reconnecting")
        => /\ reconnectTimeout # None
           /\ reconnectTimeout[1][1] - now = BackoffDelay(reconnectAttempts)

\* C17: once the reconnection attempts are exhausted and the offline
\* condition is surfaced, the connectivity flag is false, no reconnection is
\* pending and the client opens no further connection from a timer
C17_OfflinePersists ==
    [][ store.error = "offline"
            => /\ ~store.wsConnected
               /\ wsTimers = {}
               /\ ~(lastCall'.op = "reconnect" /\ lastCall'.outcome = "created") ]_vars

\* C18: any two requests written to the recognition channel are at least the
\* throttle interval apart
C18_RequestsThrottled ==
    \A i, j \in DOMAIN outbox :
        i < j => outbox[j].time - outbox[i].time >= InferenceThrottleMs

\* C19: the first sample the gesture detector processes (no last position
\* yet) only stores its position and timestamp: no Strum Event, no note, no
\* timer, and the last-strum time is unchanged
C19_FirstSampleOnlySeeds ==
    [][ ( /\ lastCall'.op = "processStrumMovement"
          /\ hasState
          /\ strumState.lastPosition = None )
        => /\ lastCall'.outcome = "seed"
           /\ strumState'.lastPosition # None
           /\ strumState'.lastPosition[1] \in StrumPositions
           /\ strumState'.lastTimestamp \in StrumTimestamps
           /\ strumState'.velocity = strumState.velocity
           /\ store' = store
           /\ voices' = voices
           /\ timers' = timers
           /\ lastStrumTime' = lastStrumTime ]_vars

\* a first sample, far from the origin and late, after an earlier strum had
\* set the last-strum time: it seeded and emitted nothing
C19_Witness ==
    /\ lastCall.op = "processStrumMovement"
    /\ lastCall.outcome = "seed"
    /\ strumState.lastPosition = Some(Point(0, -3, 0))
    /\ strumState.lastTimestamp = 110
    /\ lastStrumTime = 60
    /\ store.lastStrumEvent # None
    /\ store.lastStrumEvent[1].timestamp = 60

\* C20: the first observation of the strumming hand after it was lost only
\* seeds position and time: it emits no Strum Event and triggers no note
C20_ReappearanceOnlySeeds ==
    [][ (store.rightHand = None /\ store'.rightHand # None)
            => /\ lastCall'.outcome # "emitted"
               /\ store'.lastStrumEvent = store.lastStrumEvent
               /\ voices' = voices ]_vars

\* C21: a sample whose timestamp is not later than the previous sample's is
\* discarded: it emits no event and leaves the last position, last timestamp,
\* last speed and last-strum time unchanged; so whenever a sample changes any
\* of them, or emits, its timestamp is later than the previous sample's
C21_NonPositiveDtDiscarded ==
    [][ ( /\ lastCall'.op = "processStrumMovement"
          /\ hasState
          /\ strumState.lastPosition # None )
        => /\ lastCall'.outcome = "badDt"
               => /\ strumState' = strumState
                  /\ lastStrumTime' = lastStrumTime
                  /\ store' = store
                  /\ voices' = voices
                  /\ timers' = timers
           /\ strumState' # strumState
               => strumState'.lastTimestamp > strumState.lastTimestamp
           /\ lastStrumTime' # lastStrumTime
               => lastStrumTime' > strumState.lastTimestamp
           /\ store'.lastStrumEvent # store.lastStrumEvent
               => store'.lastStrumEvent[1].timestamp > strumState.lastTimestamp ]_vars

\* a sample not later than the previous one (taken at 110 ms, after a strum
\* at 60 ms) was discarded
C21_Witness ==
    /\ lastCall.op = "processStrumMovement"
    /\ lastCall.outcome = "badDt"
    /\ strumState.lastPosition # None
    /\ strumState.lastTimestamp = 110
    /\ lastStrumTime = 60

\* C22: when no Strum Event has been emitted before, a sample that follows the
\* seeding sample with positive elapsed time and a speed above
\* STRUM_SPEED_THRESHOLD emits exactly one Strum Event, with velocity in [0,1]
C22_FirstFastSampleEmits ==
    [][ ( /\ lastCall'.op = "processStrumMovement"
          /\ hasState
          /\ strumState.lastPosition # None
          /\ store.lastStrumEvent = None
          /\ strumState'.lastTimestamp > strumState.lastTimestamp
          /\ strumState'.velocity > STRUM_SPEED_THRESHOLD_MILLI )
        => /\ lastCall'.outcome = "emitted"
           /\ store'.lastStrumEvent # None
           /\ store'.lastStrumEvent[1].timestamp = strumState'.lastTimestamp
           /\ store'.lastStrumEvent[1].velocity \in 0..1000 ]_vars

\* C23: every emitted Strum Event has a string index in [0,5] and a velocity
\* in [0,1], also for vertical positions outside [0,1], and an event is
\* emitted only when the computed speed is strictly above the threshold
C23_EventWithinRanges ==
    [][ store'.lastStrumEvent # store.lastStrumEvent
        => /\ store'.lastStrumEvent # None
           /\ store'.lastStrumEvent[1].stringIndex \in 0..5
           /\ store'.lastStrumEvent[1].velocity \in 0..1000
           /\ lastCall'.string = store'.lastStrumEvent[1].stringIndex
           /\ strumState.lastPosition # None
           /\ strumState'.lastTimestamp > strumState.lastTimestamp
           /\ AboveThreshold(magnitude(subtract(strumState'.lastPosition[1],
                                                strumState.lastPosition[1])),
                             strumState'.lastTimestamp - strumState.lastTimestamp) ]_vars

\* a strum with the hand below the bottom edge of the frame (y > 1) was
\* emitted on string 0 at full velocity
C23_Witness ==
    /\ lastCall.op = "processStrumMovement"
    /\ lastCall.outcome = "emitted"
    /\ strumState.lastPosition[1].y > PosScale
    /\ store.lastStrumEvent[1].stringIndex = 0
    /\ store.lastStrumEvent[1].velocity = 1000

\* the hands of one frame that are assigned to a slot
SlotHands(results, slot) == {i \in 1..Len(results) : SlotOf(results[i]) = slot}

\* the store's hand of a slot
SlotHand(st, slot) == IF slot = "left" THEN st.leftHand ELSE st.rightHand

\* C24: smoothing state is reset when a hand disappears: after a frame in
\* which a hand is not detected, the first frame in which it reappears yields
\* its unsmoothed normalized pose; a hand that is detected is smoothed
\* against its own cache only
C24_ReappearanceUnsmoothed ==
    [][ ( /\ lastCall'.op \in {"onResults", "processStrumMovement"}
          /\ lastResults.outcome \in {"ok", "noHands"}
          /\ lastResults'.outcome = "ok" )
        => \A slot \in {"left", "right"} :
             LET before == SlotHands(lastResults.hands, slot)
                 here   == SlotHands(lastResults'.hands, slot)
                 hand   == lastResults'.hands[CHOOSE i \in here : TRUE]
                 pose   == normalizeLandmarks(hand.landmarks)
             IN  Cardinality(here) = 1
                 => /\ SlotHand(store', slot) # None
                    /\ SlotHand(store', slot)[1].normalized
                          = flattenLandmarks(smoothLandmarks(pose, prevLandmarksRef[slot]))
                    /\ before = {}
                          => SlotHand(store', slot)[1].normalized = flattenLandmarks(pose) ]_vars

\* C25: a landmark set with fewer than 21 points is rejected for that hand
\* and that frame: the hand counts as not detected, no vector is produced
\* for it, its cache gets no partial data, and no exception leaves the
\* frame handler
C25_ShortLandmarkSetRejected ==
    ( \E i \in 1..Len(lastResults.hands) :
          Len(lastResults.hands[i].landmarks) < LANDMARKS_PER_HAND )
    => /\ lastResults.outcome # "TypeError"
       /\ \A slot \in {"left", "right"} :
             LET complete == {i \in SlotHands(lastResults.hands, slot) :
                                Len(lastResults.hands[i].landmarks) = LANDMARKS_PER_HAND}
             IN  /\ complete = {}
                       => SlotHand(store, slot) = None /\ prevLandmarksRef[slot] = None
                 /\ SlotHand(store, slot) # None
                       => Len(SlotHand(store, slot)[1].normalized)
                            = LANDMARKS_PER_HAND * DIMS_PER_LANDMARK
                 /\ prevLandmarksRef[slot] # None
                       => Len(prevLandmarksRef[slot][1]) = LANDMARKS_PER_HAND

\* C28: after a frame, the smoothing cache of each hand holds the smoothed
\* pose produced for it in that frame, so that the next output is
\* alpha * normalized[t] + (1 - alpha) * smoothed[t-1]
C28_CacheHoldsSmoothedPose ==
    ( /\ lastResults.outcome = "ok"
      /\ \A slot \in {"left", "right"} :
            Cardinality(SlotHands(lastResults.hands, slot)) <= 1 )
    => \A slot \in {"left", "right"} :
          prevLandmarksRef[slot] # None
              => /\ SlotHand(store, slot) # None
                 /\ SlotHand(store, slot)[1].normalized
                       = flattenLandmarks(prevLandmarksRef[slot][1])

\* C26: at every strum resolution, correction-active, the chord identifier
\* and the override notes used all come from the most recently received
\* Recognition Result
C26_StrumReadsLatestResult ==
    ( /\ lastCall.op = "processStrumMovement"
      /\ lastCall.outcome = "emitted"
      /\ store.lastInferenceResult # None )
    => LET result == store.lastInferenceResult[1]
       IN  /\ store.correctionActive = result.correction_active
           /\ store.currentChord = result.chord_id
           /\ ( store.correctionActive /\ Len(store.overrideNotes) > lastCall.string )
                 => /\ result.override_notes # None
                    /\ store.overrideNotes = result.override_notes[1]

\* C27: fret arbitration is deterministic and free of side effects: the fret
\* of a strum is a function of the correction-active flag, the override
\* notes and the strummed string alone, and resolving it leaves the stored
\* Recognition Result and the fields derived from it as they were
C27_ArbitrationPure ==
    [][ lastCall'.op = "processStrumMovement"
        => /\ store'.lastInferenceResult = store.lastInferenceResult
           /\ store'.currentChord = store.currentChord
           /\ store'.correctionActive = store.correctionActive
           /\ store'.overrideNotes = store.overrideNotes
           /\ lastCall'.outcome = "emitted"
                => /\ lastCall'.fret =
                        IF store.correctionActive
                           /\ Len(store.overrideNotes) > lastCall'.string
                        THEN Max(0, store.overrideNotes[lastCall'.string + 1]
                                      - GUITAR_TUNING[lastCall'.string + 1])
                        ELSE 0
                   /\ store'.lastStrumEvent[1].fretIndex = lastCall'.fret ]_vars

\* a strum at 150 ms or later, after earlier frames, was resolved under
\* correction to fret 3 on string 5
C27_Witness ==
    /\ lastCall.op = "processStrumMovement"
    /\ lastCall.outcome = "emitted"
    /\ store.correctionActive
    /\ store.lastStrumEvent[1].timestamp >= 150
    /\ lastCall.string = 5
    /\ lastCall.fret = 3

C30_OpenResetsAttempts ==
    [][ /\ lastCall'.op = "onopen"
            => /\ reconnectAttempts' = 0
               /\ store'.error = ""
               /\ store'.wsConnected
        /\ ( lastCall'.op = "onclose" /\ lastCall'.outcome = "offline" )
            => reconnectAttempts = MAX_RECONNECT_ATTEMPTS
        /\ store'.error = "offline"
            => store.error = "offline" \/ reconnectAttempts = MAX_RECONNECT_ATTEMPTS
        /\ reconnectAttempts' # reconnectAttempts
            => \/ lastCall'.op = "onopen"
               \/ /\ lastCall'.op = "onclose"
                  /\ reconnectAttempts' = reconnectAttempts + 1 ]_vars

\* a connection opened after the time of a full series of reconnection
\* delays: the counter is back at 0 and no error is shown
C30_Witness ==
    /\ lastCall.op = "onopen"
    /\ reconnectAttempts = 0
    /\ store.error = ""
    /\ store.wsConnected
    /\ now >= MAX_RECONNECT_ATTEMPTS * RECONNECT_DELAY

\* C31: at any time at most one WebSocket to the recognizer is open or
\* connecting
C31_AtMostOneLiveSocket ==
    Cardinality({id \in DOMAIN sockets : sockets[id] \in {"open", "connecting"}}) <= 1

\* C32: disconnect() is final: from the unmount that calls it until the hook
\* is mounted again, no reconnect timer is pending and no timer opens a
\* connection, also after the close event of the socket it closed
C32_DisconnectIsFinal ==
    ~mounted
        => /\ wsTimers = {}
           /\ reconnectTimeout = None
           /\ lastCall.op # "reconnect"

\* C33: the active-string set of the store is exactly the set of strings
\* whose voice is playing
C33_ActiveStringsArePlaying == store.activeStrings = PlayingStrings

\* a timer released one string while another one is still sounding
C33_Witness ==
    /\ lastCall.op = "autoRelease"
    /\ lastCall.outcome = "released"
    /\ store.activeStrings # {}
    /\ \E t \in timers : t.kind = "release" /\ t.string \notin store.activeStrings

\* C34: while the engine is disposed no string is active and no voice plays,
\* and a playChord callback or auto-release timer that fires then returns at
\* the state check: it changes no voice and no store field and only leaves
\* the timer set
C34_LateTimersAreNoOps ==
    [][ /\ ~hasState' => (store'.activeStrings = {} /\ voices' = << >>)
        /\ (~hasState /\ lastCall'.op \in {"autoRelease", "chordNote"})
              => /\ lastCall'.outcome = "uninitialized"
                 /\ voices' = voices
                 /\ store' = store
                 /\ hasState' = hasState
                 /\ timers' \subseteq timers
                 /\ timers' # timers ]_vars

\* a playChord callback fired on the disposed engine while auto-release
\* timers of the notes played before dispose() are still pending
C34_Witness ==
    /\ ~hasState
    /\ lastCall.op = "chordNote"
    /\ lastCall.outcome = "uninitialized"
    /\ \E t \in timers : t.kind = "release"

\* C35: an initialize() call that completes while the engine already has its
\* voices returns true without creating voices again: the voice set and the
\* strum state it finds are the ones it leaves
C35_VoicesCreatedOnce ==
    [][ (hasState /\ lastCall'.op = "initialize")
           => /\ lastCall'.outcome = "already"
              /\ voices' = voices
              /\ strumState' = strumState ]_vars

\* C36: after a frame that onResults processed to its end, a hand slot of the
\* store and its smoothing cache are filled only if a hand assigned to that
\* slot was detected in that frame
C36_NoHandSurvivesItsAbsence ==
    ( /\ lastResults.outcome \in {"ok", "noHands"}
      /\ \A i \in 1..Len(lastResults.hands) :
            Len(lastResults.hands[i].landmarks) = LANDMARKS_PER_HAND )
    => \A slot \in {"left", "right"} :
          SlotHands(lastResults.hands, slot) = {}
              => /\ SlotHand(store, slot) = None
                 /\ prevLandmarksRef[slot] = None

\* C37: the chord table is consistent with the override-note translation: a
\* strum resolved from the notes the table holds for the current chord
\* plays, on a string its fingering does not mute, the fret of that
\* fingering
C37_NotesAgreeWithFingering ==
    ( /\ lastCall.op = "processStrumMovement"
      /\ lastCall.outcome = "emitted"
      /\ store.correctionActive
      /\ store.currentChord \in DOMAIN CHORD_DATABASE
      /\ store.overrideNotes = CHORD_DATABASE[store.currentChord].notes
      /\ CHORD_DATABASE[store.currentChord].fingering[lastCall.string + 1] >= 0 )
        => lastCall.fret = CHORD_DATABASE[store.currentChord].fingering[lastCall.string + 1]

====
